---------------------------- MODULE Spec2Model ----------------------------
(***************************************************************************)
(* Smart City Dashboard (script.js): the data acquisition and derivation   *)
(* pipeline.  fetchCityData geocodes the city, fans out four fetchers      *)
(* through Promise.all, and hands the bundle to the presentation helpers.  *)
(*                                                                         *)
(* Conventions                                                             *)
(*  - JavaScript runs one task at a time: an action is one task, i.e. one  *)
(*    network completion together with every continuation (microtask) it   *)
(*    resumes, up to the next await.                                       *)
(*  - Upstream numbers are fixed point, in tenths (203 is 20.3).  Values   *)
(*    produced by Math.round are whole numbers.                            *)
(*  - A JavaScript value that may be null or undefined is a record         *)
(*    [k |-> "null" | "undefined" | "number", v |-> n].                    *)
(*  - A string built by a template literal is the sequence of its          *)
(*    fragments, so <<"Weather API error: ", "500">> is the text           *)
(*    "Weather API error: 500" and <<>> is the empty string.               *)
(***************************************************************************)
EXTENDS Integers, Sequences, FiniteSets, TLC

(***************************************************************************)
(* Bounds of the model.                                                    *)
(***************************************************************************)
\* invocations of fetchCityData that may overlap
NumInvocations == 2
\* the upstream pm2_5 readings explored by the fetcher specification are
\* 0, 0.5, 1, ... up to this many halves (155.0 reaches the last segment)
MaxPm25Halves == 310
\* the upstream us_aqi readings explored by the fetcher specification are
\* 0, 2.5, 5, ... up to this many steps of 2.5 (210.0 reaches the last band)
MaxUsAqiSteps == 84
\* the function specification calls calculateAQI with 0, 0.1, 0.2, ... up to
\* this many tenths (200.0 is well inside the last segment)
MaxPm25Tenths == 2000
\* the function specification calls getAQIStatus with every whole index
\* from minus this to this (the last band starts at 201)
MaxIndex == 320
\* the function specification calls getWeatherDescription with every whole
\* code from -1 to this (the table ends at 95), and with 999, null and
\* undefined
MaxWeatherCode == 110

(***************************************************************************)
(* JavaScript values.                                                      *)
(***************************************************************************)
Null == [k |-> "null", v |-> 0]
Undefined == [k |-> "undefined", v |-> 0]
Num(n) == [k |-> "number", v |-> n]

\* x === null || x === undefined
IsAbsent(x) == x.k \in {"null", "undefined"}

\* !x for a value that is null, undefined or a number: 0 is falsy
Falsy(x) == IsAbsent(x) \/ x.v = 0

\* Math.round of a fixed-point number given in tenths: halves round up
MathRound(tenths) == (tenths + 5) \div 10

\* String(n) inside a template literal
Digits(n) == ToString(n)

(***************************************************************************)
(* Air Quality Index derivation (script.js 573-604).                       *)
(***************************************************************************)
\* Inputs (in tenths) at which the exact value of the segment formula is a
\* half and the IEEE-754 double evaluation of the source expression falls
\* just below it, so Math.round gives one less than the exact formula.
\* None of them is a whole number of micrograms.
DoubleFallsBelowHalf == {66, 1566, 2062, 2682, 3674, 3922, 4418, 4542}

\* the fourth return statement starting from the base of the third
aqiSegmentRepeatsBase(k, pm25) ==
    CASE k = 1 -> (5 * pm25 + 6) \div 12
      [] k = 2 -> 50 + ((50 * (pm25 - 120) + 117) \div 234)
      [] k = 3 -> 100 + ((pm25 - 354 + 2) \div 4)
      [] k = 4 -> 100 + ((2 * (pm25 - 554) + 19) \div 38)
      [] k = 5 -> 200 + ((50 * (pm25 - 1504) + 124) \div 248)

\* The k-th return statement of calculateAQI (lines 576, 578, 580, 582,
\* 584) for pm25 given in tenths: Math.round(x) is the floor of x + 1/2,
\* taken here on the exact value of the expression.
\*   1  round(pm25 / 12 * 50)
\*   2  round(50 + (pm25 - 12) / 23.4 * 50)
\*   3  round(100 + (pm25 - 35.4) / 20 * 50)
\*   4  round(150 + (pm25 - 55.4) / 95 * 50)
\*   5  round(200 + (pm25 - 150.4) / 49.6 * 100)
aqiSegment(k, pm25) ==
    CASE k = 1 -> (5 * pm25 + 6) \div 12
      [] k = 2 -> 50 + ((50 * (pm25 - 120) + 117) \div 234)
      [] k = 3 -> 100 + ((pm25 - 354 + 2) \div 4)
      [] k = 4 -> 150 + ((2 * (pm25 - 554) + 19) \div 38)
      [] k = 5 -> 200 + ((50 * (pm25 - 1504) + 124) \div 248)

\* the if / else-if chain of lines 575-585: the return statement reached
aqiSegmentOf(pm25) ==
    IF pm25 <= 120 THEN 1
    ELSE IF pm25 <= 354 THEN 2
    ELSE IF pm25 <= 554 THEN 3
    ELSE IF pm25 <= 1504 THEN 4
    ELSE 5

\* calculateAQI rounding down instead of to the nearest whole number
calculateAQIRoundsDown(pm25) ==
    CASE aqiSegmentOf(pm25) = 1 -> (5 * pm25) \div 12
      [] aqiSegmentOf(pm25) = 2 -> 50 + ((50 * (pm25 - 120)) \div 234)
      [] aqiSegmentOf(pm25) = 3 -> 100 + ((pm25 - 354) \div 4)
      [] aqiSegmentOf(pm25) = 4 -> 150 + ((2 * (pm25 - 554)) \div 38)
      [] aqiSegmentOf(pm25) = 5 -> 200 + ((50 * (pm25 - 1504)) \div 248)

\* calculateAQI(pm25) with pm25 given in tenths
calculateAQI(pm25) ==
    LET exact == aqiSegment(aqiSegmentOf(pm25), pm25)
    IN  IF pm25 \in DoubleFallsBelowHalf THEN exact - 1 ELSE exact

\* getAQIStatus with the upper bounds of the bands left out of them
getAQIStatusExclusive(aqi) ==
    IF aqi < 50 THEN "Good"
    ELSE IF aqi < 100 THEN "Moderate"
    ELSE IF aqi < 150 THEN "Unhealthy for Sensitive Groups"
    ELSE IF aqi < 200 THEN "Unhealthy"
    ELSE "Very Unhealthy"

getAQIStatus(aqi) ==
    IF aqi <= 50 THEN "Good"
    ELSE IF aqi <= 100 THEN "Moderate"
    ELSE IF aqi <= 150 THEN "Unhealthy for Sensitive Groups"
    ELSE IF aqi <= 200 THEN "Unhealthy"
    ELSE "Very Unhealthy"

(***************************************************************************)
(* Completions of an async function: it returns a value or throws an       *)
(* Error carrying a message.                                               *)
(***************************************************************************)
Pending == [type |-> "pending"]
\* a completion nobody reads any more: only how it ended is kept
Dropped(c) == [type |-> c.type]
Return(v) == [type |-> "return", value |-> v]
Throw(m) == [type |-> "throw", message |-> m]

\* error.message of the errors the runtime itself raises
SyntaxErrorMessage == <<"Unexpected token in JSON">>
TypeErrorMessage == <<"Cannot read properties of undefined">>
\* fetch() rejects with a TypeError whose text the browser chooses
NetworkMessages == {<<"Failed to fetch">>}

(***************************************************************************)
(* Upstream responses.  kind is                                            *)
(*   "network"     fetch() rejected                                        *)
(*   "http"        response.ok is false, status is the HTTP status         *)
(*   "unparsable"  response.json() rejected                                *)
(*   "nocurrent"   a JSON object without the expected member               *)
(*   "ok"          the expected payload                                    *)
(***************************************************************************)
FailStatuses == {404, 500}

Response(kind, status, message, payload) ==
    [kind |-> kind, status |-> status, message |-> message, payload |-> payload]

NoPayload == [k |-> "undefined", v |-> 0]

FailedResponses ==
    {Response("network", 0, m, NoPayload) : m \in NetworkMessages}
    \cup {Response("http", s, <<>>, NoPayload) : s \in FailStatuses}
    \cup {Response("unparsable", 200, <<>>, NoPayload)}

(***************************************************************************)
(* Air quality fetcher (script.js 464-521).                                *)
(***************************************************************************)
AirSnapshot(pm25, aqi, status) == [pm25 |-> pm25, aqi |-> aqi, status |-> status]

\* the try block leaving the index empty when upstream sends none
fetchAirQualityDataTryNoDerivation(resp) ==
    IF resp.kind = "network" THEN Throw(resp.message)
    ELSE IF resp.kind = "http"
      THEN Throw(<<"Air Quality API error: ", Digits(resp.status)>>)
    ELSE IF resp.kind = "unparsable" THEN Throw(SyntaxErrorMessage)
    ELSE IF resp.kind = "nocurrent" \/ IsAbsent(resp.payload.pm2_5)
      THEN Return(AirSnapshot(Null, Null,
                  "No air quality data available for this location"))
    ELSE LET pm25 == MathRound(resp.payload.pm2_5.v)
             us_aqi == resp.payload.us_aqi
         IN  IF Falsy(us_aqi)
               THEN Return(AirSnapshot(Num(pm25), Null, getAQIStatus(0)))
               ELSE Return(AirSnapshot(Num(pm25), Num(MathRound(us_aqi.v)),
                                       getAQIStatus(MathRound(us_aqi.v))))

\* the try block deriving the index from the reading before it is rounded
fetchAirQualityDataTryDerivesFromRaw(resp) ==
    IF resp.kind = "network" THEN Throw(resp.message)
    ELSE IF resp.kind = "http"
      THEN Throw(<<"Air Quality API error: ", Digits(resp.status)>>)
    ELSE IF resp.kind = "unparsable" THEN Throw(SyntaxErrorMessage)
    ELSE IF resp.kind = "nocurrent" \/ IsAbsent(resp.payload.pm2_5)
      THEN Return(AirSnapshot(Null, Null,
                  "No air quality data available for this location"))
    ELSE LET pm25 == MathRound(resp.payload.pm2_5.v)
             us_aqi == resp.payload.us_aqi
             aqi == IF Falsy(us_aqi) THEN calculateAQI(resp.payload.pm2_5.v)
                    ELSE MathRound(us_aqi.v)
         IN  Return(AirSnapshot(Num(pm25), Num(aqi), getAQIStatus(aqi)))

\* the try block labelling the snapshot from the derived index even when the
\* upstream index is the one stored
fetchAirQualityDataTryLabelsDerived(resp) ==
    IF resp.kind = "network" THEN Throw(resp.message)
    ELSE IF resp.kind = "http"
      THEN Throw(<<"Air Quality API error: ", Digits(resp.status)>>)
    ELSE IF resp.kind = "unparsable" THEN Throw(SyntaxErrorMessage)
    ELSE IF resp.kind = "nocurrent" \/ IsAbsent(resp.payload.pm2_5)
      THEN Return(AirSnapshot(Null, Null,
                  "No air quality data available for this location"))
    ELSE LET pm25 == MathRound(resp.payload.pm2_5.v)
             us_aqi == resp.payload.us_aqi
             aqi == IF Falsy(us_aqi) THEN calculateAQI(10 * pm25)
                    ELSE MathRound(us_aqi.v)
         IN  Return(AirSnapshot(Num(pm25), Num(aqi),
                                getAQIStatus(calculateAQI(10 * pm25))))

\* the try block, lines 465-511
fetchAirQualityDataTry(resp) ==
    IF resp.kind = "network" THEN Throw(resp.message)
    ELSE IF resp.kind = "http"
      THEN Throw(<<"Air Quality API error: ", Digits(resp.status)>>)
    ELSE IF resp.kind = "unparsable" THEN Throw(SyntaxErrorMessage)
    ELSE IF resp.kind = "nocurrent" \/ IsAbsent(resp.payload.pm2_5)
      THEN Return(AirSnapshot(Null, Null,
                  "No air quality data available for this location"))
    ELSE LET pm25 == MathRound(resp.payload.pm2_5.v)
             us_aqi == resp.payload.us_aqi
             aqi == IF Falsy(us_aqi) THEN calculateAQI(10 * pm25)
                    ELSE MathRound(us_aqi.v)
         IN  Return(AirSnapshot(Num(pm25), Num(aqi), getAQIStatus(aqi)))

\* the catch block throwing the error on instead of absorbing it
fetchAirQualityDataCatchRethrows(error) == Throw(error.message)

\* the catch block answering with the label of the no-data return
fetchAirQualityDataCatchOtherLabel(error) ==
    Return(AirSnapshot(Null, Null,
           "No air quality data available for this location"))

\* the catch block, lines 512-520
fetchAirQualityDataCatch(error) ==
    Return(AirSnapshot(Null, Null, "Air quality data not available"))

fetchAirQualityData(resp) ==
    LET c == fetchAirQualityDataTry(resp)
    IN  IF c.type = "throw" THEN fetchAirQualityDataCatch(c) ELSE c

\* The variant README.md prints (lines 480-501): !data.current?.pm2_5 is
\* true when current is missing and when pm2_5 is null, undefined or 0;
\* calculateAQI and getAQIStatus are those of script.js (README 537-551).
readmeFetchAirQualityDataTry(resp) ==
    IF resp.kind = "network" THEN Throw(resp.message)
    ELSE IF resp.kind = "http"
      THEN Throw(<<"Air Quality API error: ", Digits(resp.status)>>)
    ELSE IF resp.kind = "unparsable" THEN Throw(SyntaxErrorMessage)
    ELSE IF resp.kind = "nocurrent" \/ Falsy(resp.payload.pm2_5)
      THEN Return(AirSnapshot(Null, Null, "No air quality data available"))
    ELSE LET pm25 == MathRound(resp.payload.pm2_5.v)
             us_aqi == resp.payload.us_aqi
             aqi == IF Falsy(us_aqi) THEN calculateAQI(10 * pm25)
                    ELSE MathRound(us_aqi.v)
         IN  Return(AirSnapshot(Num(pm25), Num(aqi), getAQIStatus(aqi)))

readmeFetchAirQualityData(resp) ==
    LET c == readmeFetchAirQualityDataTry(resp)
    IN  IF c.type = "throw"
          THEN Return(AirSnapshot(Null, Null, "Air quality data not available"))
          ELSE c

(***************************************************************************)
(* Weather fetcher (script.js 312-410).                                    *)
(***************************************************************************)
\* the codes of the lookup table, lines 379-401
WeatherCodes ==
    {0, 1, 2, 3, 45, 48, 51, 53, 55, 61, 63, 65, 71, 73, 75, 80, 81, 82, 85,
     86, 95}

codes(code) ==
    CASE code = 0 -> "clear sky"
      [] code = 1 -> "mainly clear"
      [] code = 2 -> "partly cloudy"
      [] code = 3 -> "overcast"
      [] code = 45 -> "foggy"
      [] code = 48 -> "depositing rime fog"
      [] code = 51 -> "light drizzle"
      [] code = 53 -> "moderate drizzle"
      [] code = 55 -> "dense drizzle"
      [] code = 61 -> "slight rain"
      [] code = 63 -> "moderate rain"
      [] code = 65 -> "heavy rain"
      [] code = 71 -> "slight snow"
      [] code = 73 -> "moderate snow"
      [] code = 75 -> "heavy snow"
      [] code = 80 -> "slight rain showers"
      [] code = 81 -> "moderate rain showers"
      [] code = 82 -> "violent rain showers"
      [] code = 85 -> "slight snow showers"
      [] code = 86 -> "heavy snow showers"
      [] code = 95 -> "thunderstorm"

\* the lookup without the "unknown" of line 409: a code outside the table
\* gives no text
getWeatherDescriptionNoFallback(code) ==
    IF code.k = "number" /\ code.v \in WeatherCodes THEN codes(code.v)
    ELSE ""

\* code is a JavaScript value: a number, or undefined when the member is absent
getWeatherDescription(code) ==
    IF code.k = "number" /\ code.v \in WeatherCodes THEN codes(code.v)
    ELSE "unknown"

\* results[0] of the geocoding response, lines 235 and 253
GeoResult == [latitude |-> 130, longitude |-> 776, name |-> "Bengaluru",
              country_code |-> "IN"]

\* the try block, lines 314-350
fetchWeatherDataWithCoordsTry(resp, geoResult) ==
    IF resp.kind = "network" THEN Throw(resp.message)
    ELSE IF resp.kind = "http"
      THEN Throw(<<"Weather API error: ", Digits(resp.status)>>)
    ELSE IF resp.kind = "unparsable" THEN Throw(SyntaxErrorMessage)
    ELSE IF resp.kind = "nocurrent" THEN Throw(TypeErrorMessage)
    ELSE Return([temperature |-> MathRound(resp.payload.temperature_2m),
                 description |-> getWeatherDescription(resp.payload.weather_code),
                 humidity |-> resp.payload.relative_humidity_2m,
                 windSpeed |-> resp.payload.wind_speed_10m,
                 cityName |-> geoResult.name,
                 country |-> geoResult.country_code])

\* the catch block answering with an empty snapshot instead of throwing
fetchWeatherDataWithCoordsCatchSwallows(error) ==
    Return([temperature |-> 0, description |-> "unknown", humidity |-> 0,
            windSpeed |-> 0, cityName |-> "", country |-> ""])

\* the catch block throwing the error on as it came
fetchWeatherDataWithCoordsCatchRethrows(error) == Throw(error.message)

\* the catch block, lines 351-358
fetchWeatherDataWithCoordsCatch(error) ==
    Throw(<<"Failed to fetch weather data: ">> \o error.message)

fetchWeatherDataWithCoords(resp, geoResult) ==
    LET c == fetchWeatherDataWithCoordsTry(resp, geoResult)
    IN  IF c.type = "throw" THEN fetchWeatherDataWithCoordsCatch(c) ELSE c

(***************************************************************************)
(* Hourly fetchers (script.js 895-920).  The parsed body is handed on as   *)
(* it is; only its presence matters to the pipeline.                       *)
(***************************************************************************)
\* the catch of lines 901-904 throwing the error on instead of returning null
fetchHourlyWeatherDataRethrows(resp) ==
    IF resp.kind = "network" THEN Throw(resp.message)
    ELSE IF resp.kind = "http" THEN Throw(<<"Hourly weather API error">>)
    ELSE IF resp.kind = "unparsable" THEN Throw(SyntaxErrorMessage)
    ELSE Return(resp.payload)

fetchHourlyWeatherData(resp) ==
    IF resp.kind = "network" THEN Return(Null)
    ELSE IF resp.kind = "http" THEN Return(Null)
    ELSE IF resp.kind = "unparsable" THEN Return(Null)
    ELSE Return(resp.payload)

\* the catch of lines 916-919 throwing the error on instead of returning null
fetchHourlyAirQualityDataRethrows(resp) ==
    IF resp.kind = "network" THEN Throw(resp.message)
    ELSE IF resp.kind = "http" THEN Throw(<<"Hourly AQ API error">>)
    ELSE IF resp.kind = "unparsable" THEN Throw(SyntaxErrorMessage)
    ELSE Return(resp.payload)

fetchHourlyAirQualityData(resp) ==
    IF resp.kind = "network" THEN Return(Null)
    ELSE IF resp.kind = "http" THEN Return(Null)
    ELSE IF resp.kind = "unparsable" THEN Return(Null)
    ELSE Return(resp.payload)

(***************************************************************************)
(* Geocoding step of fetchCityData (script.js 199-235).  kind "noresults"  *)
(* is a body without results, "empty" a body whose results is [].          *)
(***************************************************************************)
CityNotFoundMessage == <<"City not found. Please check the city name.">>

\* geocode without the results check of lines 225-227
geocodeNoResultsCheck(resp) ==
    IF resp.kind = "network" THEN Throw(resp.message)
    ELSE IF resp.kind = "http"
      THEN Throw(<<"Geocoding API error: ", Digits(resp.status)>>)
    ELSE IF resp.kind = "unparsable" THEN Throw(SyntaxErrorMessage)
    ELSE Return(GeoResult)

\* geocode throwing one message for every failure
geocodeOneMessage(resp) ==
    IF resp.kind = "network" THEN Throw(resp.message)
    ELSE IF resp.kind = "unparsable" THEN Throw(SyntaxErrorMessage)
    ELSE IF resp.kind \in {"http", "noresults", "empty"}
      THEN Throw(CityNotFoundMessage)
    ELSE Return(resp.payload)

geocode(resp) ==
    IF resp.kind = "network" THEN Throw(resp.message)
    ELSE IF resp.kind = "http"
      THEN Throw(<<"Geocoding API error: ", Digits(resp.status)>>)
    ELSE IF resp.kind = "unparsable" THEN Throw(SyntaxErrorMessage)
    ELSE IF resp.kind \in {"noresults", "empty"} THEN Throw(CityNotFoundMessage)
    ELSE Return(resp.payload)

\* error.message || "Failed to fetch data. ...", lines 285-287
FallbackMessage == <<"Failed to fetch data. Please try refreshing the page.">>

errorMessageOrFallback(error) ==
    IF error.message = <<>> THEN FallbackMessage ELSE error.message

(***************************************************************************)
(* What the upstream services may answer.                                  *)
(***************************************************************************)
GeoResponses ==
    FailedResponses
    \cup {Response("noresults", 200, <<>>, NoPayload),
          Response("empty", 200, <<>>, NoPayload),
          Response("ok", 200, <<>>, GeoResult)}

WeatherPayloads ==
    {[temperature_2m |-> 237, relative_humidity_2m |-> 60,
      weather_code |-> Num(2), wind_speed_10m |-> 32]}

WeatherResponses ==
    FailedResponses
    \cup {Response("nocurrent", 200, <<>>, NoPayload)}
    \cup {Response("ok", 200, <<>>, p) : p \in WeatherPayloads}

\* the readings the pipeline specification explores: no concentration, a
\* concentration of zero, and a concentration with or without an index
AirPayloads ==
    {[pm2_5 |-> Null, us_aqi |-> Null],
     [pm2_5 |-> Undefined, us_aqi |-> Num(675)],
     [pm2_5 |-> Num(0), us_aqi |-> Num(0)],
     [pm2_5 |-> Num(203), us_aqi |-> Undefined],
     [pm2_5 |-> Num(203), us_aqi |-> Num(675)]}

AirResponses ==
    FailedResponses
    \cup {Response("nocurrent", 200, <<>>, NoPayload)}
    \cup {Response("ok", 200, <<>>, p) : p \in AirPayloads}

HourlySeries == [k |-> "object", v |-> 24]

HourlyResponses ==
    FailedResponses \cup {Response("ok", 200, <<>>, HourlySeries)}

\* every reading the fetcher specification explores, in tenths
Pm25Readings == {Null, Undefined} \cup {Num(5 * h) : h \in 0..MaxPm25Halves}
UsAqiReadings == {Null, Undefined} \cup {Num(25 * q) : q \in 0..MaxUsAqiSteps}

AllAirResponses ==
    FailedResponses
    \cup {Response("nocurrent", 200, <<>>, NoPayload)}
    \cup {Response("ok", 200, <<>>, p) :
            p \in [pm2_5 : Pm25Readings, us_aqi : UsAqiReadings]}

(***************************************************************************)
(* State.                                                                  *)
(***************************************************************************)
Invocations == 1..NumInvocations
Fetchers == {"weather", "air", "hourlyWeather", "hourlyAir"}
Requests == {"geo"} \cup Fetchers
\* the requests whose failure ends the invocation; what they were answered
\* (geoResponse, line 199, and response, line 324) is kept for reference
FatalRequests == {"geo", "weather"}
NoAnswer == [kind |-> "none", status |-> 0]
Answer(resp) == [kind |-> resp.kind, status |-> resp.status]

VARIABLES
    pc,             \* per invocation: idle, resolving, fetching, done, error
    req,            \* per invocation and request: none, pending, settled
    issued,         \* per invocation and request: calls of fetch() made
    result,         \* per invocation and request: completion of the step
    shown,          \* per invocation: the messages it passed to showError
    presented,      \* per invocation: the bundles it handed to presentation
    spinner,        \* #loadingSpinner style.display
    errorShown,     \* #errorMessage has class "show"
    errorText,      \* #errorMessage textContent
    weatherInfo,    \* #weatherInfo content
    airQualityInfo, \* #airQualityInfo content
    dataChart,      \* the global dataChart: a handle of charts, 0 for null
    charts,         \* every Chart constructed so far, by handle
    upstream,       \* per invocation: the answers to its two fatal requests
    aqResponse,     \* fetcher specification: the upstream answer
    aqCompletion,   \* fetcher specification: what fetchAirQualityData did
    aqReadme,       \* fetcher specification: what the README variant did
    fnCall,         \* function specification: the function and its argument
    fnReturned      \* function specification: what the call did

invVars == <<pc, req, issued, result, shown, presented, upstream>>
domVars == <<spinner, errorShown, errorText, weatherInfo, airQualityInfo,
             dataChart, charts>>
aqVars == <<aqResponse, aqCompletion, aqReadme>>
fnVars == <<fnCall, fnReturned>>
vars == <<pc, req, issued, result, shown, presented, upstream, spinner, errorShown,
          errorText, weatherInfo, airQualityInfo, dataChart, charts,
          aqResponse, aqCompletion, aqReadme, fnCall, fnReturned>>

LoadingPlaceholder == [kind |-> "loading"]
NoCall == [fn |-> "none", arg |-> Null]

\* The page as loaded (index.html): spinner and error surface hidden, the
\* panels holding their placeholders, and the globals of lines 26-30 null.
Init ==
    /\ pc = [i \in Invocations |-> "idle"]
    /\ req = [i \in Invocations |-> [r \in Requests |-> "none"]]
    /\ issued = [i \in Invocations |-> [r \in Requests |-> 0]]
    /\ result = [i \in Invocations |-> [r \in Requests |-> Pending]]
    /\ shown = [i \in Invocations |-> <<>>]
    /\ presented = [i \in Invocations |-> <<>>]
    /\ upstream = [i \in Invocations |-> [r \in FatalRequests |-> NoAnswer]]
    /\ spinner = "none"
    /\ errorShown = FALSE
    /\ errorText = <<>>
    /\ weatherInfo = LoadingPlaceholder
    /\ airQualityInfo = LoadingPlaceholder
    /\ dataChart = 0
    /\ charts = <<>>
    /\ aqResponse = Response("nocurrent", 200, <<>>, NoPayload)
    /\ aqCompletion = Pending
    /\ aqReadme = Pending
    /\ fnCall = NoCall
    /\ fnReturned = Pending

(***************************************************************************)
(* UI helpers (script.js 753-815).                                         *)
(***************************************************************************)
showLoading(show) == spinner' = IF show THEN "block" ELSE "none"

\* showError making the surface visible without writing the message
showErrorKeepsText(message) ==
    /\ UNCHANGED errorText
    /\ errorShown' = TRUE

showError(message) ==
    /\ errorText' = message
    /\ errorShown' = TRUE

hideError ==
    /\ errorShown' = FALSE
    /\ UNCHANGED errorText

\* the other four chart globals are never assigned, so only dataChart is live
clearDashboard ==
    /\ weatherInfo' = LoadingPlaceholder
    /\ airQualityInfo' = LoadingPlaceholder
    /\ IF dataChart # 0
         THEN /\ charts' = [charts EXCEPT ![dataChart].destroyed = TRUE]
              /\ dataChart' = 0
         ELSE UNCHANGED <<charts, dataChart>>

(***************************************************************************)
(* Presentation (script.js 416-454, 527-561, 610-743).                     *)
(***************************************************************************)
displayWeatherInfo(data) == weatherInfo' = [kind |-> "weather", data |-> data]

\* status.includes(...) over the five labels of getAQIStatus
getStatusClass(status) ==
    IF status = "Good" THEN "status-good"
    ELSE IF status = "Moderate" THEN "status-moderate"
    ELSE "status-unhealthy"

displayAirQuality(data) ==
    IF Falsy(data.pm25)
      THEN airQualityInfo' = [kind |-> "placeholder", text |-> data.status]
      ELSE airQualityInfo' =
             [kind |-> "reading", aqi |-> data.aqi, status |-> data.status,
              statusClass |-> getStatusClass(data.status), pm25 |-> data.pm25]

\* createChart installing the new chart without destroying the one held
createChartKeepsPrior(weatherData, airQualityData) ==
    LET labels ==
          <<"Temperature (C)", "Humidity (%)", "Wind Speed (m/s)">>
          \o (IF Falsy(airQualityData.pm25) THEN <<>> ELSE <<"PM2.5 (ug/m3)">>)
    IN  /\ charts' = Append(charts, [destroyed |-> FALSE, labels |-> labels])
        /\ dataChart' = Len(charts) + 1

createChart(weatherData, airQualityData) ==
    LET labels ==
          <<"Temperature (C)", "Humidity (%)", "Wind Speed (m/s)">>
          \o (IF Falsy(airQualityData.pm25) THEN <<>> ELSE <<"PM2.5 (ug/m3)">>)
        disposed ==
          IF dataChart # 0
            THEN [charts EXCEPT ![dataChart].destroyed = TRUE]
            ELSE charts
    IN  /\ charts' = Append(disposed, [destroyed |-> FALSE, labels |-> labels])
        /\ dataChart' = Len(charts) + 1

(***************************************************************************)
(* fetchCityData (script.js 164-296).                                      *)
(***************************************************************************)
\* the fetchers awaited one after the other: of several requests only the
\* first, the weather request, goes out
IssueFirstOnly(i, rs, reqNow) ==
    LET first == IF "weather" \in rs THEN {"weather"} ELSE rs
    IN  /\ req' = [req EXCEPT ![i] = [r \in Requests |->
                      IF r \in first THEN "pending" ELSE reqNow[r]]]
        /\ issued' = [issued EXCEPT ![i] = [r \in Requests |->
                      IF r \in first THEN issued[i][r] + 1 ELSE issued[i][r]]]

\* fetch(url) for each request of rs: it goes out and is counted
Issue(i, rs, reqNow) ==
    /\ req' = [req EXCEPT ![i] = [r \in Requests |->
                                    IF r \in rs THEN "pending" ELSE reqNow[r]]]
    /\ issued' = [issued EXCEPT ![i] = [r \in Requests |->
                                    IF r \in rs THEN issued[i][r] + 1
                                    ELSE issued[i][r]]]

\* fetchCityData abandoning the invocations still in flight when it starts
StartCancelsPrior(i) ==
    /\ pc[i] = "idle"
    /\ \A j \in Invocations : j < i => pc[j] # "idle"
    /\ showLoading(TRUE)
    /\ hideError
    /\ clearDashboard
    /\ Issue(i, {"geo"}, req[i])
    /\ pc' = [j \in Invocations |->
                IF j = i THEN "resolving"
                ELSE IF pc[j] \in {"resolving", "fetching"} THEN "cancelled"
                ELSE pc[j]]
    /\ UNCHANGED <<result, shown, presented, upstream>>
    /\ UNCHANGED <<aqVars, fnVars>>

\* lines 164-199: up to the first await.  Invocations are numbered in the
\* order in which they start.
Start(i) ==
    /\ pc[i] = "idle"
    /\ \A j \in Invocations : j < i => pc[j] # "idle"
    /\ showLoading(TRUE)
    /\ hideError
    /\ clearDashboard
    /\ Issue(i, {"geo"}, req[i])
    /\ pc' = [pc EXCEPT ![i] = "resolving"]
    /\ UNCHANGED <<result, shown, presented, upstream>>
    /\ UNCHANGED <<aqVars, fnVars>>

\* the catch block without the finally after it: the spinner stays
CatchWithoutFinally(i, error) ==
    /\ showError(errorMessageOrFallback(error))
    /\ UNCHANGED spinner
    /\ shown' = [shown EXCEPT ![i] = Append(@, errorMessageOrFallback(error))]
    /\ pc' = [pc EXCEPT ![i] = "error"]
    /\ UNCHANGED <<presented, weatherInfo, airQualityInfo, dataChart, charts>>

\* lines 277-295: the catch block, then finally
Catch(i, error) ==
    /\ showError(errorMessageOrFallback(error))
    /\ showLoading(FALSE)
    /\ shown' = [shown EXCEPT ![i] = Append(@, errorMessageOrFallback(error))]
    /\ pc' = [pc EXCEPT ![i] = "error"]
    /\ UNCHANGED <<presented, weatherInfo, airQualityInfo, dataChart, charts>>

\* lines 259-275: the bundle goes to presentation, then finally
Present(i, bundle) ==
    /\ displayWeatherInfo(bundle.weatherData)
    /\ displayAirQuality(bundle.airQualityData)
    /\ createChart(bundle.weatherData, bundle.airQualityData)
    /\ showLoading(FALSE)
    /\ presented' = [presented EXCEPT ![i] = Append(@, bundle)]
    /\ pc' = [pc EXCEPT ![i] = "done"]
    /\ UNCHANGED <<shown, errorShown, errorText>>

\* the geocoding step trying once more after a status outside the success
\* range
GeoSettleRetries(i, resp) ==
    /\ req[i]["geo"] = "pending"
    /\ IF resp.kind = "http" /\ issued[i]["geo"] < 2
         THEN /\ Issue(i, {"geo"}, req[i])
              /\ UNCHANGED <<pc, result, shown, presented, upstream>>
              /\ UNCHANGED domVars
         ELSE /\ upstream' = [upstream EXCEPT ![i]["geo"] = Answer(resp)]
              /\ LET c == geocode(resp)
                 IN  /\ result' = [result EXCEPT ![i]["geo"] = c]
                     /\ IF c.type = "throw"
                          THEN /\ Catch(i, c)
                               /\ req' = [req EXCEPT ![i]["geo"] = "settled"]
                               /\ UNCHANGED issued
                          ELSE /\ Issue(i, Fetchers,
                                        [req[i] EXCEPT !["geo"] = "settled"])
                               /\ pc' = [pc EXCEPT ![i] = "fetching"]
                               /\ UNCHANGED <<shown, presented>>
                               /\ UNCHANGED domVars
    /\ UNCHANGED <<aqVars, fnVars>>

\* lines 199-257: the geocoding answer arrives; on success the four
\* fetchers are called, each running up to its own fetch()
GeoSettle(i, resp) ==
    /\ req[i]["geo"] = "pending"
    /\ upstream' = [upstream EXCEPT ![i]["geo"] = Answer(resp)]
    /\ LET c == geocode(resp)
       IN  /\ result' = [result EXCEPT ![i]["geo"] = c]
           /\ IF c.type = "throw"
                THEN /\ Catch(i, c)
                     /\ req' = [req EXCEPT ![i]["geo"] = "settled"]
                     /\ UNCHANGED issued
                ELSE /\ Issue(i, Fetchers, [req[i] EXCEPT !["geo"] = "settled"])
                     /\ pc' = [pc EXCEPT ![i] = "fetching"]
                     /\ UNCHANGED <<shown, presented>>
                     /\ UNCHANGED domVars
    /\ UNCHANGED <<aqVars, fnVars>>

\* the join handing the bundle on as soon as the two current-data fetchers
\* have returned, the hourly series being whatever is there by then
SettleJoinsTwo(i, f, c) ==
    /\ req' = [req EXCEPT ![i][f] = "settled"]
    /\ result' = [result EXCEPT ![i] =
                    IF pc[i] # "fetching" THEN [@ EXCEPT ![f] = Dropped(c)]
                    ELSE IF c.type = "throw"
                      THEN [g \in Requests |->
                              IF g = f THEN c
                              ELSE IF g \in Fetchers THEN Dropped(@[g])
                              ELSE @[g]]
                    ELSE [@ EXCEPT ![f] = c]]
    /\ UNCHANGED issued
    /\ LET r == [result[i] EXCEPT ![f] = c]
           valueOf(g) == IF r[g].type = "return" THEN r[g].value ELSE Undefined
       IN  IF pc[i] # "fetching"
             THEN UNCHANGED <<pc, shown, presented>> /\ UNCHANGED domVars
           ELSE IF c.type = "throw"
             THEN Catch(i, c)
           ELSE IF \A g \in {"weather", "air"} : r[g].type = "return"
             THEN Present(i, [weatherData |-> r["weather"].value,
                              airQualityData |-> r["air"].value,
                              hourlyWeatherData |-> valueOf("hourlyWeather"),
                              hourlyAirQualityData |-> valueOf("hourlyAir")])
           ELSE UNCHANGED <<pc, shown, presented>> /\ UNCHANGED domVars
    /\ UNCHANGED <<aqVars, fnVars>>

\* A fetcher of invocation i completes with c.  Promise.all (lines 252-257)
\* rejects on the first rejection and fulfils when all four have fulfilled;
\* once it has rejected, the values of the other fetchers, those already
\* there and those still to come, are never read.
Settle(i, f, c) ==
    /\ req' = [req EXCEPT ![i][f] = "settled"]
    /\ result' = [result EXCEPT ![i] =
                    IF pc[i] # "fetching" THEN [@ EXCEPT ![f] = Dropped(c)]
                    ELSE IF c.type = "throw"
                      THEN [g \in Requests |->
                              IF g = f THEN c
                              ELSE IF g \in Fetchers THEN Dropped(@[g])
                              ELSE @[g]]
                    ELSE [@ EXCEPT ![f] = c]]
    /\ UNCHANGED issued
    /\ LET r == [result[i] EXCEPT ![f] = c]
       IN  IF pc[i] # "fetching"
             THEN UNCHANGED <<pc, shown, presented>> /\ UNCHANGED domVars
           ELSE IF c.type = "throw"
             THEN Catch(i, c)
           ELSE IF \A g \in Fetchers : r[g].type = "return"
             THEN Present(i, [weatherData |-> r["weather"].value,
                              airQualityData |-> r["air"].value,
                              hourlyWeatherData |-> r["hourlyWeather"].value,
                              hourlyAirQualityData |-> r["hourlyAir"].value])
           ELSE UNCHANGED <<pc, shown, presented>> /\ UNCHANGED domVars
    /\ UNCHANGED <<aqVars, fnVars>>

\* lines 324-358, then the join
WeatherSettle(i, resp) ==
    /\ req[i]["weather"] = "pending"
    /\ upstream' = [upstream EXCEPT ![i]["weather"] = Answer(resp)]
    /\ Settle(i, "weather",
              fetchWeatherDataWithCoords(resp, result[i]["geo"].value))

\* lines 469-520, then the join
AirSettle(i, resp) ==
    /\ req[i]["air"] = "pending"
    /\ UNCHANGED upstream
    /\ Settle(i, "air", fetchAirQualityData(resp))

\* lines 898-904, then the join
HourlyWeatherSettle(i, resp) ==
    /\ req[i]["hourlyWeather"] = "pending"
    /\ UNCHANGED upstream
    /\ Settle(i, "hourlyWeather", fetchHourlyWeatherData(resp))

\* lines 913-919, then the join
HourlyAirSettle(i, resp) ==
    /\ req[i]["hourlyAir"] = "pending"
    /\ UNCHANGED upstream
    /\ Settle(i, "hourlyAir", fetchHourlyAirQualityData(resp))

\* a timer giving up on an invocation whose requests are still out
Timeout(i) ==
    /\ pc[i] \in {"resolving", "fetching"}
    /\ Catch(i, Throw(<<"Request timed out">>))
    /\ UNCHANGED <<req, issued, result, upstream>>
    /\ UNCHANGED <<aqVars, fnVars>>

\* the steps of the program with such a timer added
NextWithTimeout ==
    \/ \E i \in Invocations : Start(i)
    \/ \E i \in Invocations : \E resp \in GeoResponses : GeoSettle(i, resp)
    \/ \E i \in Invocations : \E resp \in WeatherResponses : WeatherSettle(i, resp)
    \/ \E i \in Invocations : \E resp \in AirResponses : AirSettle(i, resp)
    \/ \E i \in Invocations : \E resp \in HourlyResponses : HourlyWeatherSettle(i, resp)
    \/ \E i \in Invocations : \E resp \in HourlyResponses : HourlyAirSettle(i, resp)
    \/ \E i \in Invocations : Timeout(i)

Next ==
    \/ \E i \in Invocations : Start(i)
    \/ \E i \in Invocations : \E resp \in GeoResponses : GeoSettle(i, resp)
    \/ \E i \in Invocations : \E resp \in WeatherResponses : WeatherSettle(i, resp)
    \/ \E i \in Invocations : \E resp \in AirResponses : AirSettle(i, resp)
    \/ \E i \in Invocations : \E resp \in HourlyResponses : HourlyWeatherSettle(i, resp)
    \/ \E i \in Invocations : \E resp \in HourlyResponses : HourlyAirSettle(i, resp)

Spec == Init /\ [][Next]_vars

\* Every request that is out is answered in the end, with success or with
\* failure: the browser settles the promise of fetch() and the event loop
\* then runs the continuation waiting on it.
Completes(i, r) ==
    CASE r = "geo" -> \E resp \in GeoResponses : GeoSettle(i, resp)
      [] r = "weather" -> \E resp \in WeatherResponses : WeatherSettle(i, resp)
      [] r = "air" -> \E resp \in AirResponses : AirSettle(i, resp)
      [] r = "hourlyWeather" ->
           \E resp \in HourlyResponses : HourlyWeatherSettle(i, resp)
      [] r = "hourlyAir" ->
           \E resp \in HourlyResponses : HourlyAirSettle(i, resp)

FairSpec ==
    /\ Init
    /\ [][Next]_vars
    /\ \A i \in Invocations : \A r \in Requests : WF_vars(Completes(i, r))

(***************************************************************************)
(* The air quality fetcher on its own: one call of fetchAirQualityData     *)
(* for every upstream answer.                                              *)
(***************************************************************************)
InitAirQuality ==
    /\ pc = [i \in Invocations |-> "idle"]
    /\ req = [i \in Invocations |-> [r \in Requests |-> "none"]]
    /\ issued = [i \in Invocations |-> [r \in Requests |-> 0]]
    /\ result = [i \in Invocations |-> [r \in Requests |-> Pending]]
    /\ shown = [i \in Invocations |-> <<>>]
    /\ presented = [i \in Invocations |-> <<>>]
    /\ upstream = [i \in Invocations |-> [r \in FatalRequests |-> NoAnswer]]
    /\ spinner = "none"
    /\ errorShown = FALSE
    /\ errorText = <<>>
    /\ weatherInfo = LoadingPlaceholder
    /\ airQualityInfo = LoadingPlaceholder
    /\ dataChart = 0
    /\ charts = <<>>
    /\ aqResponse \in AllAirResponses
    /\ aqCompletion = Pending
    /\ aqReadme = Pending
    /\ fnCall = NoCall
    /\ fnReturned = Pending

CallFetchAirQualityData ==
    /\ aqCompletion = Pending
    /\ aqCompletion' = fetchAirQualityData(aqResponse)
    /\ UNCHANGED <<aqResponse, aqReadme>>
    /\ UNCHANGED invVars
    /\ UNCHANGED domVars
    /\ UNCHANGED fnVars

\* the same upstream answer given to the variant of README.md
CallReadmeFetchAirQualityData ==
    /\ aqReadme = Pending
    /\ aqReadme' = readmeFetchAirQualityData(aqResponse)
    /\ UNCHANGED <<aqResponse, aqCompletion>>
    /\ UNCHANGED invVars
    /\ UNCHANGED domVars
    /\ UNCHANGED fnVars

NextAirQuality == CallFetchAirQualityData \/ CallReadmeFetchAirQualityData

SpecAirQuality == InitAirQuality /\ [][NextAirQuality]_vars

(***************************************************************************)
(* The pure functions on their own: one call of calculateAQI,              *)
(* getAQIStatus or getWeatherDescription for every argument of a range.    *)
(* calculateAQI takes its argument in tenths.                              *)
(***************************************************************************)
Call(fn, arg) == [fn |-> fn, arg |-> arg]

CalculateAQIArguments == {Num(t) : t \in 0..MaxPm25Tenths}
GetAQIStatusArguments == {Num(a) : a \in (0 - MaxIndex)..MaxIndex}
GetWeatherDescriptionArguments ==
    {Num(c) : c \in (0 - 1)..MaxWeatherCode} \cup {Num(999), Null, Undefined}

InitFunctions ==
    /\ pc = [i \in Invocations |-> "idle"]
    /\ req = [i \in Invocations |-> [r \in Requests |-> "none"]]
    /\ issued = [i \in Invocations |-> [r \in Requests |-> 0]]
    /\ result = [i \in Invocations |-> [r \in Requests |-> Pending]]
    /\ shown = [i \in Invocations |-> <<>>]
    /\ presented = [i \in Invocations |-> <<>>]
    /\ upstream = [i \in Invocations |-> [r \in FatalRequests |-> NoAnswer]]
    /\ spinner = "none"
    /\ errorShown = FALSE
    /\ errorText = <<>>
    /\ weatherInfo = LoadingPlaceholder
    /\ airQualityInfo = LoadingPlaceholder
    /\ dataChart = 0
    /\ charts = <<>>
    /\ aqResponse = Response("network", 0, <<"Failed to fetch">>, NoPayload)
    /\ aqCompletion = Pending
    /\ aqReadme = Pending
    /\ fnCall \in {Call("calculateAQI", x) : x \in CalculateAQIArguments}
               \cup {Call("getAQIStatus", x) : x \in GetAQIStatusArguments}
               \cup {Call("getWeatherDescription", x) :
                       x \in GetWeatherDescriptionArguments}
    /\ fnReturned = Pending

CallCalculateAQI ==
    /\ fnCall.fn = "calculateAQI"
    /\ fnReturned = Pending
    /\ fnReturned' = Return(Num(calculateAQI(fnCall.arg.v)))
    /\ UNCHANGED <<fnCall, invVars, domVars, aqVars>>

CallGetAQIStatus ==
    /\ fnCall.fn = "getAQIStatus"
    /\ fnReturned = Pending
    /\ fnReturned' = Return(getAQIStatus(fnCall.arg.v))
    /\ UNCHANGED <<fnCall, invVars, domVars, aqVars>>

CallGetWeatherDescription ==
    /\ fnCall.fn = "getWeatherDescription"
    /\ fnReturned = Pending
    /\ fnReturned' = Return(getWeatherDescription(fnCall.arg))
    /\ UNCHANGED <<fnCall, invVars, domVars, aqVars>>

NextFunctions ==
    \/ CallCalculateAQI
    \/ CallGetAQIStatus
    \/ CallGetWeatherDescription

SpecFunctions == InitFunctions /\ [][NextFunctions]_vars

(***************************************************************************)
(* Properties of the pipeline.                                             *)
(***************************************************************************)
GeoFailureKinds == {"noresults", "empty", "http"}
WeatherFailureKinds == {"network", "http", "unparsable", "nocurrent"}

\* the text m contains the fragment t
Contains(m, t) == \E k \in 1..Len(m) : m[k] = t

\* C1: when geocoding fails (results absent or empty, or a status outside
\* the success range) the invocation is in Error, has surfaced one non-empty
\* message, and none of its four fetchers has issued or will issue a request.
C1_GeocodingFailureStopsPipeline ==
    \A i \in Invocations :
      upstream[i]["geo"].kind \in GeoFailureKinds =>
        /\ pc[i] = "error"
        /\ Len(shown[i]) = 1
        /\ shown[i][1] # <<>>
        /\ \A f \in Fetchers : issued[i][f] = 0 /\ req[i][f] = "none"
        /\ presented[i] = <<>>

C1_Witness ==
    \E i \in Invocations :
      /\ upstream[i]["geo"].kind = "empty"
      /\ pc[i] = "error"
      /\ errorShown
      /\ errorText = shown[i][1]

\* C2: zero matches surface the "City not found" message, a status outside
\* the success range surfaces a message carrying that status, and the two
\* kinds of failure never surface the same message.
C2_GeocodingMessagesDistinct ==
    /\ \A i \in Invocations :
         /\ upstream[i]["geo"].kind \in {"noresults", "empty"} =>
              shown[i] = <<CityNotFoundMessage>>
         /\ upstream[i]["geo"].kind = "http" =>
              /\ Len(shown[i]) = 1
              /\ Contains(shown[i][1], Digits(upstream[i]["geo"].status))
    /\ \A i, j \in Invocations :
         /\ upstream[i]["geo"].kind \in {"noresults", "empty"}
         /\ upstream[j]["geo"].kind = "http"
         => shown[i] # shown[j]

C2_Witness ==
    \E i, j \in Invocations :
      /\ upstream[i]["geo"].kind = "empty"
      /\ upstream[j]["geo"].kind = "http"
      /\ pc[i] = "error"
      /\ pc[j] = "error"

\* C3: when the current-weather fetcher fails, the invocation is in Error
\* and has handed nothing to presentation, whatever the other three
\* fetchers of the invocation did or do afterwards.
C3_WeatherFailureIsFatal ==
    \A i \in Invocations :
      upstream[i]["weather"].kind \in WeatherFailureKinds =>
        /\ result[i]["weather"].type = "throw"
        /\ pc[i] = "error"
        /\ Len(shown[i]) = 1
        /\ presented[i] = <<>>

C3_Witness ==
    \E i \in Invocations :
      /\ upstream[i]["weather"].kind = "http"
      /\ pc[i] = "error"
      /\ \A f \in Fetchers : req[i][f] = "settled"
      /\ \A f \in Fetchers \ {"weather"} : result[i][f].type = "return"

\* C4: every failure inside the weather fetcher is surfaced with the
\* "Failed to fetch weather data: " prefix, and for a status outside the
\* success range the surfaced message contains that status.
C4_WeatherFailureMessage ==
    \A i \in Invocations :
      upstream[i]["weather"].kind \in WeatherFailureKinds =>
        /\ Len(shown[i]) = 1
        /\ Len(shown[i][1]) >= 1
        /\ shown[i][1][1] = "Failed to fetch weather data: "
        /\ upstream[i]["weather"].kind = "http" =>
             Contains(shown[i][1], Digits(upstream[i]["weather"].status))

C4_Witness ==
    \E i \in Invocations :
      /\ upstream[i]["weather"].kind = "http"
      /\ upstream[i]["weather"].status = 500
      /\ shown[i] =
           <<<<"Failed to fetch weather data: ", "Weather API error: ", "500">>>>
      /\ errorShown
      /\ errorText = shown[i][1]

\* C5: when geocoding and current weather succeed, a failed air quality
\* request (network error or status outside the success range) does not put
\* the invocation into Error and resolves to a snapshot without pm25 and
\* index; once all four fetchers are through, presentation has received the
\* weather snapshot together with the air quality snapshot that was fetched.
C5_AirFailureStillDelivers ==
    /\ [][\A i \in Invocations : \A resp \in AirResponses :
            ( /\ resp.kind \in {"network", "http"}
              /\ pc[i] = "fetching"
              /\ AirSettle(i, resp) )
            => /\ pc'[i] # "error"
               /\ result'[i]["air"].type = "return"
               /\ result'[i]["air"].value.pm25 = Null
               /\ result'[i]["air"].value.aqi = Null]_vars
    /\ [](\A i \in Invocations :
            ( /\ upstream[i]["geo"].kind = "ok"
              /\ upstream[i]["weather"].kind = "ok"
              /\ \A f \in Fetchers : req[i][f] = "settled" )
            => /\ pc[i] = "done"
               /\ Len(presented[i]) = 1
               /\ result[i]["weather"].type = "return"
               /\ presented[i][1].weatherData = result[i]["weather"].value
               /\ presented[i][1].airQualityData = result[i]["air"].value)

C5_Witness ==
    \E i \in Invocations :
      /\ pc[i] = "done"
      /\ presented[i][1].airQualityData =
           AirSnapshot(Null, Null, "Air quality data not available")
      /\ presented[i][1].weatherData.temperature = 24
      /\ weatherInfo = [kind |-> "weather", data |-> presented[i][1].weatherData]
      /\ airQualityInfo =
           [kind |-> "placeholder", text |-> "Air quality data not available"]

(***************************************************************************)
(* Properties of the air quality fetcher, under SpecAirQuality.            *)
(***************************************************************************)
Called == aqCompletion # Pending

ConcentrationPresent ==
    aqResponse.kind = "ok" /\ ~IsAbsent(aqResponse.payload.pm2_5)

StatusLabels ==
    {"Good", "Moderate", "Unhealthy for Sensitive Groups", "Unhealthy",
     "Very Unhealthy", "No air quality data available for this location",
     "Air quality data not available"}

\* C6: fetchAirQualityData never raises: whatever the request did, it
\* returns a snapshot carrying a status label.
C6_AirFetcherNeverRaises ==
    Called =>
      /\ aqCompletion.type = "return"
      /\ aqCompletion.value.status \in StatusLabels

C6_Witness ==
    /\ aqResponse.kind = "unparsable"
    /\ aqCompletion.type = "return"
    /\ aqCompletion.value.status = "Air quality data not available"

\* C7: in every snapshot fetchAirQualityData returns, pm25 and aqi are
\* both present or both absent.
C7_Pm25AndIndexTogether ==
    (Called /\ aqCompletion.type = "return") =>
      (IsAbsent(aqCompletion.value.pm25) <=> IsAbsent(aqCompletion.value.aqi))

C7_Witness ==
    /\ ConcentrationPresent
    /\ aqResponse.payload.pm2_5.v = 0
    /\ IsAbsent(aqResponse.payload.us_aqi)
    /\ Called
    /\ aqCompletion.value.pm25 = Num(0)
    /\ aqCompletion.value.aqi = Num(0)

\* C8: a valid answer whose pm2_5 is null or undefined gives the snapshot
\* without readings labelled "No air quality data available for this
\* location"; a failed request (network error, status outside the success
\* range) gives the one labelled "Air quality data not available"; neither
\* throws.
C8_AbsentDataLabels ==
    Called =>
      /\ (aqResponse.kind = "ok" /\ IsAbsent(aqResponse.payload.pm2_5)) =>
           aqCompletion =
             Return(AirSnapshot(Null, Null,
                    "No air quality data available for this location"))
      /\ aqResponse.kind \in {"network", "http"} =>
           aqCompletion =
             Return(AirSnapshot(Null, Null, "Air quality data not available"))

C8_Witness ==
    /\ aqResponse.kind = "ok"
    /\ aqResponse.payload.pm2_5 = Null
    /\ ~IsAbsent(aqResponse.payload.us_aqi)
    /\ Called
    /\ aqCompletion.value.status =
         "No air quality data available for this location"

\* C9: when the upstream concentration and the upstream index are both
\* present, the snapshot's index is the upstream index rounded to an
\* integer, for every upstream index including 0.
C9_UpstreamIndexUsed ==
    ( /\ Called
      /\ ConcentrationPresent
      /\ ~IsAbsent(aqResponse.payload.us_aqi) )
    => /\ aqCompletion.type = "return"
       /\ aqCompletion.value.aqi = Num(MathRound(aqResponse.payload.us_aqi.v))

\* C10: when the upstream concentration is present and the upstream index
\* is null or undefined, the snapshot's index is calculateAQI of the
\* snapshot's pm25 and is not absent.
C10_IndexDerivedWhenAbsent ==
    ( /\ Called
      /\ ConcentrationPresent
      /\ IsAbsent(aqResponse.payload.us_aqi) )
    => /\ aqCompletion.type = "return"
       /\ ~IsAbsent(aqCompletion.value.aqi)
       /\ aqCompletion.value.aqi =
            Num(calculateAQI(10 * aqCompletion.value.pm25.v))

C10_Witness ==
    /\ ConcentrationPresent
    /\ aqResponse.payload.pm2_5.v = 205
    /\ aqResponse.payload.us_aqi = Undefined
    /\ Called
    /\ aqCompletion.value.pm25 = Num(21)
    /\ aqCompletion.value.aqi = Num(69)

\* C11: in every snapshot fetchAirQualityData returns with an index, the
\* status label is getAQIStatus of that final index, whether the index came
\* from upstream or was derived; the label is never anything else.
C11_StatusFromFinalIndex ==
    ( /\ Called
      /\ aqCompletion.type = "return"
      /\ ~IsAbsent(aqCompletion.value.aqi) )
    => aqCompletion.value.status = getAQIStatus(aqCompletion.value.aqi.v)

\* an upstream index in another band than the index the reading would give
C11_Witness ==
    /\ ConcentrationPresent
    /\ aqResponse.payload.pm2_5.v = 50
    /\ aqResponse.payload.us_aqi = Num(1525)
    /\ Called
    /\ aqCompletion.value.aqi = Num(153)
    /\ aqCompletion.value.status = "Unhealthy"

(***************************************************************************)
(* Further properties of the pipeline, under Spec.                         *)
(***************************************************************************)
HourlyFailureKinds == {"network", "http", "unparsable"}

Returned(fn) == fnCall.fn = fn /\ fnReturned # Pending

AbsDiff(a, b) == IF a >= b THEN a - b ELSE b - a

\* C13: getAQIStatus answers every whole index, by bands with inclusive
\* upper bounds: up to 50 "Good", 51..100 "Moderate", 101..150 "Unhealthy
\* for Sensitive Groups", 151..200 "Unhealthy", above 200 "Very Unhealthy";
\* so 50 is Good, 51 Moderate, 200 Unhealthy and 201 Very Unhealthy.
C13_StatusBands ==
    Returned("getAQIStatus") =>
      LET index == fnCall.arg.v
          label == fnReturned.value
      IN  /\ fnReturned.type = "return"
          /\ index <= 50 => label = "Good"
          /\ index \in 51..100 => label = "Moderate"
          /\ index \in 101..150 => label = "Unhealthy for Sensitive Groups"
          /\ index \in 151..200 => label = "Unhealthy"
          /\ index > 200 => label = "Very Unhealthy"
          /\ index = 50 => label = "Good"
          /\ index = 51 => label = "Moderate"
          /\ index = 200 => label = "Unhealthy"
          /\ index = 201 => label = "Very Unhealthy"

C13_Witness ==
    /\ Returned("getAQIStatus")
    /\ fnCall.arg = Num(200)
    /\ fnReturned = Return("Unhealthy")

\* The formula the specification gives for a reading of pm25 tenths, as the
\* fraction n / d: the row is chosen by the upper bounds 12, 35.4, 55.4 and
\* 150.4, each belonging to the row it ends.
\*   pm25 / 12 * 50,  50 + (pm25 - 12) / 23.4 * 50,
\*   100 + (pm25 - 35.4) / 20 * 50,  150 + (pm25 - 55.4) / 95 * 50,
\*   200 + (pm25 - 150.4) / 49.6 * 100
PiecewiseFormula(pm25) ==
    IF pm25 <= 120 THEN [n |-> 50 * pm25, d |-> 120]
    ELSE IF pm25 <= 354 THEN [n |-> 50 * 234 + 50 * (pm25 - 120), d |-> 234]
    ELSE IF pm25 <= 554 THEN [n |-> 100 * 200 + 50 * (pm25 - 354), d |-> 200]
    ELSE IF pm25 <= 1504 THEN [n |-> 150 * 950 + 50 * (pm25 - 554), d |-> 950]
    ELSE [n |-> 200 * 496 + 100 * (pm25 - 1504), d |-> 496]

\* r is n / d rounded to the nearest whole number, a half going up
RoundsTo(n, d, r) == (2 * r - 1) * d <= 2 * n /\ 2 * n < (2 * r + 1) * d

Breakpoints == {120, 354, 554, 1504}
SegmentEndingAt(b) ==
    CASE b = 120 -> 1 [] b = 354 -> 2 [] b = 554 -> 3 [] b = 1504 -> 4

\* C15: at the breakpoints 12, 35.4, 55.4 and 150.4 the return statement
\* ending there and the one starting there give values at most 1 apart, and
\* what calculateAQI returns is within 1 of both; at 0, where the first
\* segment starts, calculateAQI returns that segment's value, 0.
C15_ContinuousAtBreakpoints ==
    Returned("calculateAQI") =>
      LET b == fnCall.arg.v
          r == fnReturned.value.v
      IN  /\ b = 0 => r = 0 /\ AbsDiff(r, aqiSegment(1, b)) <= 1
          /\ b \in Breakpoints =>
                LET k == SegmentEndingAt(b)
                IN  /\ AbsDiff(aqiSegment(k, b), aqiSegment(k + 1, b)) <= 1
                    /\ AbsDiff(r, aqiSegment(k, b)) <= 1
                    /\ AbsDiff(r, aqiSegment(k + 1, b)) <= 1

C15_Witness ==
    /\ Returned("calculateAQI")
    /\ fnCall.arg = Num(554)
    /\ fnReturned = Return(Num(150))
    /\ aqiSegment(3, 554) = 150
    /\ aqiSegment(4, 554) = 150

\* the table as README.md prints it (lines 117-139)
ReadmeCodes ==
    { <<0, "clear sky">>, <<1, "mainly clear">>, <<2, "partly cloudy">>,
      <<3, "overcast">>, <<45, "foggy">>, <<48, "depositing rime fog">>,
      <<51, "light drizzle">>, <<53, "moderate drizzle">>,
      <<55, "dense drizzle">>, <<61, "slight rain">>, <<63, "moderate rain">>,
      <<65, "heavy rain">>, <<71, "slight snow">>, <<73, "moderate snow">>,
      <<75, "heavy snow">>, <<80, "slight rain showers">>,
      <<81, "moderate rain showers">>, <<82, "violent rain showers">>,
      <<85, "slight snow showers">>, <<86, "heavy snow showers">>,
      <<95, "thunderstorm">> }

\* C16: getWeatherDescription never throws and always returns a text that
\* is not empty: for each of the 21 codes of the table the phrase of the
\* table (0 gives "clear sky", 95 "thunderstorm"), for any other code (999,
\* a missing code) "unknown".
C16_DescriptionTable ==
    Returned("getWeatherDescription") =>
      LET code == fnCall.arg
          text == fnReturned.value
          documented == code.k = "number"
                        /\ \E e \in ReadmeCodes : e[1] = code.v
      IN  /\ fnReturned.type = "return"
          /\ text # ""
          /\ Cardinality({e[1] : e \in ReadmeCodes}) = 21
          /\ documented => <<code.v, text>> \in ReadmeCodes
          /\ ~documented => text = "unknown"
          /\ code = Num(0) => text = "clear sky"
          /\ code = Num(95) => text = "thunderstorm"

\* the call with no code at all
C16_Witness ==
    /\ Returned("getWeatherDescription")
    /\ fnCall.arg = Undefined
    /\ fnReturned = Return("unknown")

\* the bundle the four fetchers of invocation i returned
Bundle(i) ==
    [weatherData |-> result[i]["weather"].value,
     airQualityData |-> result[i]["air"].value,
     hourlyWeatherData |-> result[i]["hourlyWeather"].value,
     hourlyAirQualityData |-> result[i]["hourlyAir"].value]

AllFetchersReturned(i) ==
    \A f \in Fetchers : req[i][f] = "settled" /\ result[i][f].type = "return"

\* C17: an invocation hands a bundle to presentation (displayWeatherInfo,
\* displayAirQuality, createChart and the chart builders after them) only
\* once all four of its fetchers have completed, at most once, and the
\* bundle holds what each of the four returned; the weather panel is
\* written only in a step that completes the last fetcher of an invocation.
C17_SingleJoin ==
    /\ [](\A i \in Invocations :
            presented[i] # <<>> =>
              /\ AllFetchersReturned(i)
              /\ presented[i] = <<Bundle(i)>>
              /\ pc[i] = "done")
    /\ [][(weatherInfo'.kind = "weather" /\ weatherInfo' # weatherInfo) =>
            \E i \in Invocations :
              /\ ~AllFetchersReturned(i)
              /\ AllFetchersReturned(i)'
              /\ weatherInfo'.data = result'[i]["weather"].value]_vars

\* delivered with one hourly series there and the other null
C17_Witness ==
    \E i \in Invocations :
      /\ pc[i] = "done"
      /\ AllFetchersReturned(i)
      /\ presented[i] = <<Bundle(i)>>
      /\ presented[i][1].hourlyWeatherData = HourlySeries
      /\ presented[i][1].hourlyAirQualityData = Null
      /\ weatherInfo.kind = "weather"

\* C18: when geocoding succeeds all four fetcher requests go out in that
\* same step, before any of their responses is taken up, so that whenever a
\* fetcher has completed every fetcher's request had already been issued;
\* and two invocations whose fetchers completed alike, in whatever order,
\* deliver the same bundle.
C18_ConcurrentFanOut ==
    /\ [][\A i \in Invocations :
            (pc[i] = "resolving" /\ pc'[i] = "fetching") =>
              \A f \in Fetchers :
                /\ req[i][f] = "none"
                /\ req'[i][f] = "pending"
                /\ issued'[i][f] = 1]_vars
    /\ [](\A i \in Invocations :
            (\E f \in Fetchers : req[i][f] # "none") =>
              \A f \in Fetchers : issued[i][f] = 1)
    /\ [](\A i, j \in Invocations :
            ( /\ pc[i] = "done"
              /\ pc[j] = "done"
              /\ \A f \in Fetchers : result[i][f] = result[j][f] )
            => presented[i] = presented[j])

\* the requests issued last answered first, the weather request still out
C18_Witness ==
    \E i \in Invocations :
      /\ pc[i] = "fetching"
      /\ \A f \in Fetchers : issued[i][f] = 1
      /\ req[i]["weather"] = "pending"
      /\ req[i]["air"] = "pending"
      /\ result[i]["hourlyWeather"] = Return(HourlySeries)
      /\ result[i]["hourlyAir"] = Return(Null)

Failed(i) == pc[i] = "error"

\* C19: the step that starts an invocation leaves the error surface
\* hidden; a step in which an invocation fails leaves it visible with that
\* invocation's message; any other step neither changes the text nor makes
\* the surface visible; so whenever the surface is visible its text is the
\* message of the latest failure, whichever invocation it came from and
\* however the invocations overlap.
C19_ErrorSurface ==
    /\ [][\A i \in Invocations :
            (pc[i] = "idle" /\ pc'[i] # "idle") => ~errorShown']_vars
    /\ [][\A i \in Invocations :
            (~Failed(i) /\ Failed(i)') =>
              /\ errorShown'
              /\ shown'[i] # <<>>
              /\ errorText' = shown'[i][Len(shown'[i])]]_vars
    /\ [][(\A i \in Invocations : Failed(i)' => Failed(i)) =>
              /\ errorText' = errorText
              /\ errorShown' => errorShown]_vars
    /\ [](errorShown =>
            \E i \in Invocations :
              Failed(i) /\ shown[i] # <<>> /\ errorText = shown[i][1])

\* the first invocation fails after the second has started: the surface
\* shows the first one's message while the second is still fetching
C19_Witness ==
    /\ Failed(1)
    /\ pc[2] = "fetching"
    /\ upstream[1]["geo"].kind = "ok"
    /\ upstream[1]["weather"].kind = "http"
    /\ errorShown
    /\ errorText = shown[1][1]
    /\ errorText = <<"Failed to fetch weather data: ", "Weather API error: ",
                     "404">>

FatalStepsSucceeded(i) ==
    upstream[i]["geo"].kind = "ok" /\ upstream[i]["weather"].kind = "ok"

ReachesDone(i) == pc[i] # "done" /\ pc'[i] = "done"

\* C20 as stated: an invocation whose geocoding and current weather
\* succeeded never calls showError whatever the other three fetchers do, and
\* the step in which it reaches Done leaves the error surface hidden.
C20_PartialDataNeverError ==
    [][\A i \in Invocations :
         /\ FatalStepsSucceeded(i)' => (shown'[i] = <<>> /\ ~Failed(i)')
         /\ ReachesDone(i) => ~errorShown']_vars

\* C20 as it holds: an invocation whose geocoding and current weather
\* succeeded never calls showError whatever the other three fetchers do, and
\* is Done once all four have completed; the step in which it reaches Done
\* leaves the error surface as it was, which is hidden unless another
\* invocation has failed and the surface shows that invocation's message.
C20_PartialDataNoOwnError ==
    /\ [](\A i \in Invocations :
            FatalStepsSucceeded(i) =>
              /\ shown[i] = <<>>
              /\ ~Failed(i)
              /\ (\A f \in Fetchers : req[i][f] = "settled") => pc[i] = "done")
    /\ [][\A i \in Invocations :
            ReachesDone(i) =>
              /\ FatalStepsSucceeded(i)'
              /\ errorShown' = errorShown
              /\ errorShown' =>
                    \E j \in Invocations \ {i} :
                      /\ Failed(j)
                      /\ errorText' = shown[j][Len(shown[j])]]_vars

\* Done with the air quality request and both hourly requests failed, and
\* nothing on the error surface
C20_Witness ==
    \E i \in Invocations :
      /\ pc[i] = "done"
      /\ FatalStepsSucceeded(i)
      /\ result[i]["air"] =
           Return(AirSnapshot(Null, Null, "Air quality data not available"))
      /\ result[i]["hourlyWeather"] = Return(Null)
      /\ result[i]["hourlyAir"] = Return(Null)
      /\ shown[i] = <<>>
      /\ ~errorShown
      /\ airQualityInfo =
           [kind |-> "placeholder", text |-> "Air quality data not available"]

Starting(i) == pc[i] = "idle" /\ pc'[i] # "idle"

InFlight(i) == pc[i] \in {"resolving", "fetching"}

\* C21: the step that starts an invocation leaves every other invocation
\* as it was, its requests out and its results untouched; the step in which
\* an invocation reaches Done writes that invocation's data into both
\* panels, over whatever was there; a step that neither starts an
\* invocation nor takes one to Done leaves the panels alone.  So of two
\* overlapping invocations the one presenting last is the one shown,
\* whichever started first.
C21_IndependentLaterWriteWins ==
    /\ [][\A i \in Invocations : Starting(i) =>
            \A j \in Invocations \ {i} :
              /\ pc'[j] = pc[j]
              /\ req'[j] = req[j]
              /\ issued'[j] = issued[j]
              /\ result'[j] = result[j]]_vars
    /\ [][\A i \in Invocations : ReachesDone(i) =>
            LET air == result'[i]["air"].value
            IN  /\ weatherInfo' =
                     [kind |-> "weather", data |-> result'[i]["weather"].value]
                /\ airQualityInfo'.kind \in {"placeholder", "reading"}
                /\ airQualityInfo'.kind = "placeholder" =>
                     airQualityInfo'.text = air.status
                /\ airQualityInfo'.kind = "reading" =>
                     /\ airQualityInfo'.pm25 = air.pm25
                     /\ airQualityInfo'.aqi = air.aqi
                     /\ airQualityInfo'.status = air.status]_vars
    /\ [][(\A i \in Invocations : ~Starting(i) /\ ~ReachesDone(i)) =>
            UNCHANGED <<weatherInfo, airQualityInfo>>]_vars

\* both invocations are Done and the panel holds the reading of the first,
\* while the second, which has no reading, wrote its placeholder earlier
C21_Witness ==
    /\ pc[1] = "done"
    /\ pc[2] = "done"
    /\ presented[1][1].airQualityData.pm25 = Num(20)
    /\ presented[2][1].airQualityData.pm25 = Null
    /\ airQualityInfo.kind = "reading"
    /\ airQualityInfo.pm25 = Num(20)
    /\ dataChart = 2
    /\ Len(charts[2].labels) = 4

\* C22: within an invocation every request, the geocoding one and each of
\* the four fetchers', goes out at most once; a step issues a request only
\* if it had never been issued, so one that failed is not issued again.
C22_NoRetry ==
    /\ [](\A i \in Invocations : \A r \in Requests : issued[i][r] <= 1)
    /\ [][\A i \in Invocations : \A r \in Requests :
            issued'[i][r] # issued[i][r] =>
              /\ issued[i][r] = 0
              /\ issued'[i][r] = 1
              /\ req[i][r] = "none"]_vars
    /\ [][\A i \in Invocations : \A r \in Requests :
            req[i][r] = "settled" => req'[i][r] = "settled"]_vars

\* the weather request failed with a status and nothing was issued again
C22_Witness ==
    \E i \in Invocations :
      /\ Failed(i)
      /\ upstream[i]["weather"].kind = "http"
      /\ \A r \in Requests : issued[i][r] = 1 /\ req[i][r] = "settled"

(***************************************************************************)
(* Termination, under FairSpec.                                            *)
(***************************************************************************)
Terminated(i) == pc[i] \in {"done", "error"}

\* C23: if every request that is out is answered in the end, an invocation
\* that has started ends in Done or in Error; Done means its bundle was
\* presented and no message shown, Error that its message was shown and no
\* bundle presented; the step that ends it leaves the spinner hidden, and
\* once ended it stays as it ended.
C23_Terminates ==
    /\ \A i \in Invocations : (pc[i] # "idle") ~> Terminated(i)
    /\ [](\A i \in Invocations :
            /\ pc[i] = "done" => (Len(presented[i]) = 1 /\ shown[i] = <<>>)
            /\ pc[i] = "error" => (Len(shown[i]) = 1 /\ presented[i] = <<>>)
            /\ ~Terminated(i) => (presented[i] = <<>> /\ shown[i] = <<>>))
    /\ [][\A i \in Invocations :
            /\ (~Terminated(i) /\ Terminated(i)') => spinner' = "none"
            /\ Terminated(i) => pc'[i] = pc[i]]_vars
    /\ []((\A i \in Invocations : ~InFlight(i))
           /\ (\E i \in Invocations : Terminated(i))
           => spinner = "none")

\* one invocation ended in Done and the other in Error, the spinner hidden
C23_Witness ==
    /\ pc[1] = "done"
    /\ pc[2] = "error"
    /\ Len(presented[1]) = 1
    /\ Len(shown[2]) = 1
    /\ spinner = "none"

(***************************************************************************)
(* More properties of the pipeline, under Spec.                            *)
(***************************************************************************)
Waiting(i) ==
    \/ req[i]["geo"] = "pending"
    \/ /\ \E f \in Fetchers : req[i][f] = "pending"
       /\ result[i]["weather"].type # "throw"

\* C24: while the geocoding request of an invocation is out, or one of its
\* four fetcher requests is out and the weather fetcher has not thrown, the
\* invocation is Resolving or Fetching, has presented no bundle and shown
\* no message; and a step that leaves it waiting hides the spinner only if
\* another invocation ends in that step.  Nothing but the answer ends the
\* wait, so a request never answered keeps the invocation there for good.
C24_NoTimeout ==
    /\ [](\A i \in Invocations :
            Waiting(i) =>
              /\ InFlight(i)
              /\ req[i]["geo"] = "pending" => pc[i] = "resolving"
              /\ presented[i] = <<>>
              /\ shown[i] = <<>>)
    /\ [][\A i \in Invocations :
            (Waiting(i) /\ Waiting(i)' /\ spinner = "block" /\ spinner' = "none")
            => \E j \in Invocations \ {i} : ~Terminated(j) /\ Terminated(j)']_vars
    /\ [][\A i \in Invocations : \A r \in Requests :
            (req[i][r] = "pending" /\ req'[i][r] # "pending") =>
              \/ r = "geo" /\ \E resp \in GeoResponses : GeoSettle(i, resp)
              \/ r = "weather"
                   /\ \E resp \in WeatherResponses : WeatherSettle(i, resp)
              \/ r = "air" /\ \E resp \in AirResponses : AirSettle(i, resp)
              \/ r = "hourlyWeather"
                   /\ \E resp \in HourlyResponses : HourlyWeatherSettle(i, resp)
              \/ r = "hourlyAir"
                   /\ \E resp \in HourlyResponses : HourlyAirSettle(i, resp)]_vars

\* only the air quality request is still out: the invocation is Fetching,
\* the spinner shows, nothing is presented or reported
C24_Witness ==
    \E i \in Invocations :
      /\ pc[i] = "fetching"
      /\ req[i]["air"] = "pending"
      /\ \A f \in Fetchers \ {"air"} : result[i][f].type = "return"
      /\ presented[i] = <<>>
      /\ shown[i] = <<>>
      /\ spinner = "block"
      /\ weatherInfo = LoadingPlaceholder

(***************************************************************************)
(* More properties of the pure functions, under SpecFunctions.             *)
(***************************************************************************)
\* the range the comment of each return statement of calculateAQI gives
\* (lines 576-584), and the band named with it
AnnotatedRange(k) ==
    CASE k = 1 -> 0..50
      [] k = 2 -> 51..100
      [] k = 3 -> 101..150
      [] k = 4 -> 151..200
      [] k = 5 -> 201..1000

AnnotatedBand(k) ==
    CASE k = 1 -> "Good"
      [] k = 2 -> "Moderate"
      [] k = 3 -> "Unhealthy for Sensitive Groups"
      [] k = 4 -> "Unhealthy"
      [] k = 5 -> "Very Unhealthy"

\* C25: for every whole reading from 0 up, the index calculateAQI returns
\* lies in the range annotated on the return statement that produced it
\* (up to 12: 0..50, up to 35.4: 51..100, up to 55.4: 101..150, up to 150.4:
\* 151..200, above: 201 or more), and getAQIStatus of it is the band named
\* there.
C25_IndexInAnnotatedRange ==
    ( /\ Returned("calculateAQI")
      /\ fnCall.arg.v % 10 = 0 )
    => LET pm25 == fnCall.arg.v
           k == IF pm25 <= 120 THEN 1
                ELSE IF pm25 <= 354 THEN 2
                ELSE IF pm25 <= 554 THEN 3
                ELSE IF pm25 <= 1504 THEN 4
                ELSE 5
       IN  /\ fnReturned.value.v \in AnnotatedRange(k)
           /\ getAQIStatus(fnReturned.value.v) = AnnotatedBand(k)

(***************************************************************************)
(* Presentation and chart handles, under Spec.                             *)
(***************************************************************************)
\* C26: whenever the snapshot handed to presentation has a pm25, 0
\* included, the air quality panel shows index, status and PM2.5 and the
\* chart gets its PM2.5 bar; the placeholder and a chart of three bars
\* occur only when pm25 is absent.
C26_ZeroIsNotAbsent ==
    [][\A i \in Invocations : ReachesDone(i) =>
         LET air == result'[i]["air"].value
             chart == charts'[dataChart']
         IN  IF IsAbsent(air.pm25)
               THEN /\ airQualityInfo'.kind = "placeholder"
                    /\ Len(chart.labels) = 3
               ELSE /\ airQualityInfo'.kind = "reading"
                    /\ airQualityInfo'.pm25 = air.pm25
                    /\ airQualityInfo'.aqi = air.aqi
                    /\ airQualityInfo'.status = air.status
                    /\ Len(chart.labels) = 4
                    /\ chart.labels[4] = "PM2.5 (ug/m3)"]_vars

\* C27: at every moment every chart createChart has constructed is the one
\* dataChart holds or has been destroyed, and the one held is not
\* destroyed; this also when invocations overlap, so that the second
\* createChart finds the chart of the first still held.
C27_NoLeakedChart ==
    /\ dataChart \in 0..Len(charts)
    /\ \A h \in 1..Len(charts) : charts[h].destroyed <=> h # dataChart
    /\ Len(charts) <= Cardinality({i \in Invocations : pc[i] = "done"})

\* two charts were made, the first destroyed, the second held
C27_Witness ==
    /\ Len(charts) = 2
    /\ charts[1].destroyed
    /\ ~charts[2].destroyed
    /\ dataChart = 2
    /\ \A i \in Invocations : pc[i] = "done"

\* C28: the spinner is visible at every moment at which at least one
\* invocation is between its showLoading(true) and its finally block, also
\* when two invocations overlap and one of them ends first.
C28_SpinnerWhileInFlight ==
    (\E i \in Invocations : InFlight(i)) => spinner = "block"

(***************************************************************************)
(* script.js against README.md, under SpecAirQuality.                      *)
(***************************************************************************)
\* C29: for every upstream answer (failed request, missing current, pm2_5
\* null or any number including 0, us_aqi null or any number) the
\* fetchAirQualityData of script.js and the one README.md prints return the
\* same snapshot: pm25, index and status label.
C29_ReadmeVariantAgrees ==
    (Called /\ aqReadme # Pending) => aqCompletion = aqReadme

=============================================================================
